---- MODULE Spec2Model ----
(***************************************************************************)
(* Model of ollama-copilot-fixer: shard detection, shard fingerprinting,   *)
(* the merge cache used by the setup pipeline (cli.main) and the           *)
(* architecture classifier.                                                *)
(*                                                                         *)
(* Strings are sequences of one-character strings, so that the regular     *)
(* expressions and globs of the source are evaluated character by          *)
(* character.                                                              *)
(***************************************************************************)
EXTENDS Integers, Sequences, FiniteSets, TLC

VARIABLES
    directory,      \* names of the files in the directory of the artifact
    stat,           \* os.stat() of each file: [size, mtime] or StatError
    case_fold,      \* TRUE when the file system globs case-insensitively
    merged_dir,     \* config.merged_dir: file name (fingerprint) -> contents
    keep_merged,    \* AppConfig.keep_merged
    pc,             \* per process: position in cli.main
    loc,            \* per process: the local variables of cli.main
    prev,           \* history: summary of the last finished invocation
    args,           \* arguments of the pure function under check
    result          \* its return value

vars == <<directory, stat, case_fold, merged_dir, keep_merged, pc, loc,
          prev, args, result>>

----------------------------------------------------------------------------
(* Characters and strings *)

AsciiOrder ==
    << "\n", "-", ".", "0", "1", "2", "3", "4", "5", "6", "7", "8", "9",
       "A", "F", "G", "L", "M", "O", "P", "R", "T", "U",
       "a", "b", "c", "d", "e", "f", "g", "h", "i", "l", "m", "n", "o",
       "p", "q", "r", "s", "t", "u", "w", "x" >>

Ord(c) == CHOOSE i \in 1..Len(AsciiOrder) : AsciiOrder[i] = c

Digit == {"0", "1", "2", "3", "4", "5", "6", "7", "8", "9"}

Lower(c) ==
    CASE c = "A" -> "a" [] c = "F" -> "f" [] c = "G" -> "g" [] c = "L" -> "l"
      [] c = "M" -> "m" [] c = "O" -> "o" [] c = "P" -> "p" [] c = "R" -> "r"
      [] c = "T" -> "t" [] c = "U" -> "u" [] OTHER -> c

LowerStr(s) == [i \in 1..Len(s) |-> Lower(s[i])]

\* One pattern element against one character; "\\d" is the digit class and
\* letters compare case-insensitively when ic holds.
ElemMatch(e, c, ic) ==
    IF e = "\\d" THEN c \in Digit
    ELSE IF ic THEN Lower(e) = Lower(c) ELSE e = c

\* The fixed-length pattern pat matches s at position i.
MatchAt(s, i, pat, ic) ==
    /\ i >= 1
    /\ i + Len(pat) - 1 <= Len(s)
    /\ \A k \in 1..Len(pat) : ElemMatch(pat[k], s[i + k - 1], ic)

\* pat matches the last Len(pat) characters of s (regex "pat$").
MatchEnd(s, pat, ic) == MatchAt(s, Len(s) - Len(pat) + 1, pat, ic)

StartsWith(s, t) == MatchAt(s, 1, t, FALSE)
EndsWith(s, t) == MatchEnd(s, t, FALSE)
Contains(s, t) == \E i \in 1..Len(s) : MatchAt(s, i, t, FALSE)

\* Python's str comparison: by code point, a proper prefix sorts first.
RECURSIVE StrLess(_, _)
StrLess(a, b) ==
    IF b = << >> THEN FALSE
    ELSE IF a = << >> THEN TRUE
    ELSE IF Head(a) # Head(b) THEN Ord(Head(a)) < Ord(Head(b))
    ELSE StrLess(Tail(a), Tail(b))

----------------------------------------------------------------------------
(* gguf.py: shard detection *)

DotGguf == << ".", "g", "g", "u", "f" >>

\* -\d{5}-of-\d{5}
IndexOfCount5 ==
    << "-", "\\d", "\\d", "\\d", "\\d", "\\d", "-", "o", "f", "-",
       "\\d", "\\d", "\\d", "\\d", "\\d" >>

DashPartDash == << "-", "p", "a", "r", "t", "-" >>
DotPart == << ".", "p", "a", "r", "t" >>

\* Start position of a match of  prefix \d+ \.gguf$  in s, or 0.
DigitsGgufStart(s, prefix) ==
    LET ends == { i \in 1..Len(s) :
                    /\ MatchAt(s, i, prefix, TRUE)
                    /\ MatchEnd(s, DotGguf, TRUE)
                    /\ i + Len(prefix) <= Len(s) - Len(DotGguf)
                    /\ \A k \in (i + Len(prefix))..(Len(s) - Len(DotGguf)) :
                          s[k] \in Digit }
    IN  IF ends = {} THEN 0 ELSE CHOOSE i \in ends : \A j \in ends : i <= j

\* re.compile(r"-\d{5}-of-\d{5}\.gguf$", re.IGNORECASE)
Pat5(s) == MatchEnd(s, IndexOfCount5 \o DotGguf, TRUE)
\* re.compile(r"-part-\d+\.gguf$", re.IGNORECASE)
PatDashPart(s) == DigitsGgufStart(s, DashPartDash) # 0
\* re.compile(r"\.part\d+\.gguf$", re.IGNORECASE)
PatDotPart(s) == DigitsGgufStart(s, DotPart) # 0

MatchesShardPatterns(name) == Pat5(name) \/ PatDashPart(name) \/ PatDotPart(name)

\* The three re.sub calls, applied in the order of the source.
Sub5(s) ==
    IF Pat5(s) THEN SubSeq(s, 1, Len(s) - Len(IndexOfCount5 \o DotGguf)) ELSE s
SubDashPart(s) ==
    IF PatDashPart(s) THEN SubSeq(s, 1, DigitsGgufStart(s, DashPartDash) - 1) ELSE s
SubDotPart(s) ==
    IF PatDotPart(s) THEN SubSeq(s, 1, DigitsGgufStart(s, DotPart) - 1) ELSE s

StripShardSuffix(name) == SubDotPart(SubDashPart(Sub5(name)))

\* re.search(r"-\d{5}-of-\d{5}|part-?\d+", p.name, flags=re.IGNORECASE)
RelatedFilter(name) ==
    \E i \in 1..Len(name) :
        \/ MatchAt(name, i, IndexOfCount5, TRUE)
        \/ MatchAt(name, i, << "p", "a", "r", "t", "\\d" >>, TRUE)
        \/ MatchAt(name, i, << "p", "a", "r", "t", "-", "\\d" >>, TRUE)

\* directory.glob(f"{base}*.gguf"): the names of the directory that start
\* with base and end in .gguf after it; the file system decides the case rule.
GlobMatch(name, base, fold) ==
    LET n == IF fold THEN LowerStr(name) ELSE name
        b == IF fold THEN LowerStr(base) ELSE base
    IN  /\ Len(n) >= Len(b) + Len(DotGguf)
        /\ StartsWith(n, b)
        /\ EndsWith(n, DotGguf)

Glob(dir, base, fold) == { n \in dir : GlobMatch(n, base, fold) }

Related(dir, name, fold) ==
    { p \in Glob(dir, StripShardSuffix(name), fold) : RelatedFilter(p) }

is_sharded_model(dir, name, fold) ==
    IF MatchesShardPatterns(name) THEN TRUE
    ELSE Cardinality(Related(dir, name, fold)) > 1

\* sorted(shards, key=lambda p: p.name)
RECURSIVE SortedByName(_)
SortedByName(S) ==
    IF S = {} THEN << >>
    ELSE LET least == CHOOSE x \in S : \A y \in S \ {x} : StrLess(x, y)
         IN  << least >> \o SortedByName(S \ {least})

shard_files(dir, name, fold) == SortedByName(Related(dir, name, fold))

----------------------------------------------------------------------------
(* gguf.py: fingerprint of a shard set *)

StatError == [error |-> TRUE]

\* int(st.st_mtime): st_mtime is a float, which the model keeps in half
\* seconds.
IntMtime(st) == st.mtime \div 2

\* str(n) for n >= 0
RECURSIVE DecStr(_)
DecStr(n) ==
    LET d == << "0", "1", "2", "3", "4", "5", "6", "7", "8", "9" >>[(n % 10) + 1]
    IN  IF n < 10 THEN << d >> ELSE DecStr(n \div 10) \o << d >>

\* The bytes one loop iteration feeds to the digest.
MemberBytes(name, st) ==
    IF st = StatError THEN name \o << "\n" >>
    ELSE name \o DecStr(st.size) \o DecStr(IntMtime(st)) \o << "\n" >>

RECURSIVE DigestInput(_, _)
DigestInput(shards, sts) ==
    IF shards = << >> THEN << >>
    ELSE MemberBytes(Head(shards), sts[Head(shards)]) \o DigestInput(Tail(shards), sts)

\* hashlib.sha256(...).hexdigest()[:16]: the digest is taken to be free of
\* collisions on the inputs of the model, so it is identified by its input.
Sha256Hex16(bytes) == << "sha256" >> \o bytes

shards_fingerprint(shards, sts) == Sha256Hex16(DigestInput(shards, sts))

----------------------------------------------------------------------------
(* gguf.py: architecture classifier *)

\* A byte that is not ASCII.
NonAscii == "\\xff"

\* f.read(16384), scaled to the lengths of the contents of the model
ReadLimit == 12

Take(s, n) == IF Len(s) <= n THEN s ELSE SubSeq(s, 1, n)

RECURSIVE DropNonAscii(_)
DropNonAscii(s) ==
    IF s = << >> THEN << >>
    ELSE IF Head(s) = NonAscii THEN DropNonAscii(Tail(s))
    ELSE << Head(s) >> \o DropNonAscii(Tail(s))

\* chunk.decode("ascii", errors="ignore").lower(), "" when the read fails
DecodedContent(file) ==
    IF file.readable THEN LowerStr(DropNonAscii(Take(file.bytes, ReadLimit))) ELSE << >>

\* re.search(a + ".*" + b, s): "." does not match a newline
DotStar(s, a, b) ==
    \E i \in 1..Len(s) :
        /\ MatchAt(s, i, a, FALSE)
        /\ \E j \in (i + Len(a))..Len(s) :
              /\ MatchAt(s, j, b, FALSE)
              /\ \A k \in (i + Len(a))..(j - 1) : s[k] # "\n"

W_llama == << "l", "l", "a", "m", "a" >>
W_mistral == << "m", "i", "s", "t", "r", "a", "l" >>
W_mixtral == << "m", "i", "x", "t", "r", "a", "l" >>
W_phi == << "p", "h", "i" >>
W_gemma == << "g", "e", "m", "m", "a" >>
W_qwen == << "q", "w", "e", "n" >>
W_nemotron == << "n", "e", "m", "o", "t", "r", "o", "n" >>

\* llama.*3\.[0-9]|llama3|llama-3
ContentLlama3(c) ==
    \/ DotStar(c, W_llama, << "3", ".", "\\d" >>)
    \/ Contains(c, W_llama \o << "3" >>)
    \/ Contains(c, W_llama \o << "-", "3" >>)
\* mistral|mixtral
ContentMistral(c) == Contains(c, W_mistral) \/ Contains(c, W_mixtral)
\* phi-3|phi3|phi-4|phi4
ContentPhi3(c) ==
    \/ Contains(c, W_phi \o << "-", "3" >>) \/ Contains(c, W_phi \o << "3" >>)
    \/ Contains(c, W_phi \o << "-", "4" >>) \/ Contains(c, W_phi \o << "4" >>)
\* gemma.*2|gemma-2
ContentGemma2(c) == DotStar(c, W_gemma, << "2" >>) \/ Contains(c, W_gemma \o << "-", "2" >>)
\* qwen.*2|qwen-2
ContentQwen(c) == DotStar(c, W_qwen, << "2" >>) \/ Contains(c, W_qwen \o << "-", "2" >>)

FilenameClassBareFamily(filename) ==
    IF Contains(filename, W_nemotron) THEN "nemotron"
    ELSE IF DotStar(filename, W_llama, << "3" >>) THEN "llama3"
    ELSE IF Contains(filename, W_mistral) \/ Contains(filename, W_mixtral) THEN "mistral"
    ELSE IF Contains(filename, W_phi) THEN "phi"
    ELSE IF Contains(filename, W_gemma) THEN "gemma"
    ELSE IF Contains(filename, W_qwen) THEN "qwen"
    ELSE "llama3"

\* Lines 113-130: the tests on the lower-cased file name
FilenameClass(filename) ==
    IF Contains(filename, W_nemotron) THEN "nemotron"
    ELSE IF DotStar(filename, W_llama, << "3" >>) THEN "llama3"
    ELSE IF Contains(filename, W_mistral) \/ Contains(filename, W_mixtral) THEN "mistral"
    ELSE IF Contains(filename, W_phi) THEN "phi3"
    ELSE IF Contains(filename, W_gemma) THEN "gemma2"
    ELSE IF Contains(filename, W_qwen) THEN "qwen"
    ELSE "llama3"

detect_architecture_filename_first(file, name) ==
    LET content == DecodedContent(file)
        byname == FilenameClass(LowerStr(name))
    IN  IF byname # "llama3" \/ DotStar(LowerStr(name), W_llama, << "3" >>) THEN byname
        ELSE IF ContentLlama3(content) THEN "llama3"
        ELSE IF ContentMistral(content) THEN "mistral"
        ELSE IF ContentPhi3(content) THEN "phi3"
        ELSE IF ContentGemma2(content) THEN "gemma2"
        ELSE IF ContentQwen(content) THEN "qwen"
        ELSE "llama3"

detect_architecture(file, name) ==
    LET content == DecodedContent(file)
    IN  IF ContentLlama3(content) THEN "llama3"
        ELSE IF ContentMistral(content) THEN "mistral"
        ELSE IF ContentPhi3(content) THEN "phi3"
        ELSE IF ContentGemma2(content) THEN "gemma2"
        ELSE IF ContentQwen(content) THEN "qwen"
        ELSE FilenameClass(LowerStr(name))

----------------------------------------------------------------------------
(* File names used by the specifications *)

Llama == << "l", "l", "a", "m", "a" >>
Instruct == << "-", "i", "n", "s", "t", "r", "u", "c", "t" >>
Idx5(i, n) == << "-", "0", "0", "0", "0", i, "-", "o", "f", "-", "0", "0", "0", "0", n >>
Idx4(i, n) == << "-", "0", "0", "0", i, "-", "o", "f", "-", "0", "0", "0", n >>

Shard1of2 == Llama \o Idx5("1", "2") \o DotGguf
Shard2of2 == Llama \o Idx5("2", "2") \o DotGguf
OtherShard1of2 == Llama \o Instruct \o Idx5("1", "2") \o DotGguf
SingleFile == Llama \o DotGguf
Narrow1of2 == Llama \o Idx4("1", "2") \o DotGguf
Narrow2of2 == Llama \o Idx4("2", "2") \o DotGguf
DashPart1 == Llama \o DashPartDash \o << "1" >> \o DotGguf
DotPart2 == Llama \o DotPart \o << "2" >> \o DotGguf
NoExtension == Llama
UpperShard1of2 ==
    << "L", "L", "A", "M", "A", "-", "0", "0", "0", "0", "1", "-", "O", "F", "-",
       "0", "0", "0", "0", "2", ".", "G", "G", "U", "F" >>
PartNotes == Llama \o << "-", "p", "a", "r", "t", "2", "x" >> \o DotGguf

----------------------------------------------------------------------------
(* cli.py: the setup pipeline, main() *)

Procs == {"p1", "p2"}

NoName == << >>
NoFp == << >>

\* The local variables of main() before an invocation starts.
InitLoc ==
    [ working |-> NoName, sharded |-> FALSE, shards |-> << >>, fp |-> NoFp,
      hit |-> FALSE, merged_created |-> FALSE, final |-> << >>,
      tool_calls |-> 0, tool_rc |-> "none", dest |-> "none", steps |-> << >>,
      temp_dir |-> "none", keep_downloads |-> FALSE ]

NoPrev ==
    [ fp |-> NoFp, rc |-> -1, err |-> "none", hit |-> FALSE,
      merged_created |-> FALSE, tool_calls |-> 0, dest |-> "none",
      steps |-> << >>, temp_dir |-> "none", keep_downloads |-> FALSE ]

Summary(l, rc, err, td) ==
    [ fp |-> l.fp, rc |-> rc, err |-> err, hit |-> l.hit,
      merged_created |-> l.merged_created, tool_calls |-> l.tool_calls,
      dest |-> l.dest, steps |-> l.steps, temp_dir |-> td,
      keep_downloads |-> l.keep_downloads ]

\* merged.exists()
Exists(md, fp) == fp \in DOMAIN md
\* merged.exists() and merged.stat().st_size > 0
CacheHit(md, fp) == Exists(md, fp) /\ md[fp] # "empty"

\* What is at the path: "absent", or the kind of contents of the file.
Content(md, fp) == IF Exists(md, fp) THEN md[fp] ELSE "absent"

WriteFile(md, fp, data) == [f \in DOMAIN md \cup {fp} |-> IF f = fp THEN data ELSE md[f]]
Unlink(md, fp) == [f \in DOMAIN md \ {fp} |-> md[f]]

Step(l, name) == [l EXCEPT !.steps = Append(@, name)]

\* shutil.rmtree(temp_dir, ignore_errors=True): the directory is gone, or
\* the removal failed without an error being raised.
RmtreeOutcomes == {"removed", "remove_failed"}

TerminateKeepsScratchOnInterrupt(p, l, rc, err) ==
    /\ \E rm \in RmtreeOutcomes :
          prev' = Summary(l, rc, err,
                          IF l.keep_downloads \/ rc = 130 THEN "exists" ELSE rm)
    /\ loc' = [loc EXCEPT ![p] = InitLoc]
    /\ pc' = [pc EXCEPT ![p] = "idle"]

\* The except/finally clauses of main() (cli.py lines 295-307): the scratch
\* directory is removed unless --keep-downloads, then the process exits with rc.
Terminate(p, l, rc, err) ==
    /\ \E rm \in RmtreeOutcomes :
          prev' = Summary(l, rc, err, IF l.keep_downloads THEN "exists" ELSE rm)
    /\ loc' = [loc EXCEPT ![p] = InitLoc]
    /\ pc' = [pc EXCEPT ![p] = "idle"]

\* What the external merge tool can do: its exit status and what it leaves
\* at the destination ("keep" leaves the destination as it was).
ToolOutcomes ==
    [rc : {"zero"}, out : {"full", "empty", "keep"}]
        \cup [rc : {"nonzero"}, out : {"partial", "empty", "keep"}]
        \cup [rc : {"interrupt"}, out : {"partial", "keep"}]

ToolEffect(md, fp, o) == IF o.out = "keep" THEN md ELSE WriteFile(md, fp, o.out)

\* Lines 140-157: configuration, cache directories, the ollama check and the
\* creation of the scratch directory.
Begin(p) ==
    /\ pc[p] = "idle"
    /\ \E ollama \in BOOLEAN, kd \in BOOLEAN :
          IF ~ollama
          THEN /\ prev' = Summary(InitLoc, 1, "ToolNotFound", "none")
               /\ UNCHANGED <<pc, loc>>
          ELSE /\ loc' = [loc EXCEPT ![p] =
                            [InitLoc EXCEPT !.temp_dir = "exists", !.keep_downloads = kd]]
               /\ pc' = [pc EXCEPT ![p] = "resolve"]
               /\ UNCHANGED prev
    /\ UNCHANGED <<directory, stat, case_fold, merged_dir, keep_merged, args, result>>

\* Lines 160-185: the source is resolved to a file of the directory, or the
\* invocation ends (path not found, download failed, Ctrl-C in the download).
Resolve(p) ==
    /\ pc[p] = "resolve"
    /\ \/ \E w \in directory :
            /\ loc' = [loc EXCEPT ![p].working = w, ![p].final = w]
            /\ pc' = [pc EXCEPT ![p] = "detect"]
            /\ UNCHANGED prev
       \/ \E e \in {"InputNotRecognized", "DownloadFailed"} : Terminate(p, loc[p], 1, e)
       \/ Terminate(p, loc[p], 130, "Interrupted")
    /\ UNCHANGED <<directory, stat, case_fold, merged_dir, keep_merged, args, result>>

\* Line 188
Detect(p) ==
    /\ pc[p] = "detect"
    /\ LET sh == is_sharded_model(directory, loc[p].working, case_fold)
       IN  /\ loc' = [loc EXCEPT ![p] = Step([@ EXCEPT !.sharded = sh], "detect")]
           /\ pc' = [pc EXCEPT ![p] = IF sh THEN "find_tool" ELSE "register"]
    /\ UNCHANGED <<directory, stat, case_fold, merged_dir, keep_merged, prev, args, result>>

\* Lines 190-197
FindTool(p) ==
    /\ pc[p] = "find_tool"
    /\ \E llama_split \in BOOLEAN :
          IF llama_split
          THEN pc' = [pc EXCEPT ![p] = "fingerprint"] /\ UNCHANGED <<loc, prev>>
          ELSE Terminate(p, loc[p], 1, "ToolNotFound")
    /\ UNCHANGED <<directory, stat, case_fold, merged_dir, keep_merged, args, result>>

\* Lines 199-202
Fingerprint(p) ==
    /\ pc[p] = "fingerprint"
    /\ LET shards == shard_files(directory, loc[p].working, case_fold)
       IN  loc' = [loc EXCEPT ![p] =
                     Step([@ EXCEPT !.shards = shards,
                                    !.fp = shards_fingerprint(shards, stat),
                                    !.merged_created = FALSE], "fingerprint")]
    /\ pc' = [pc EXCEPT ![p] = "lookup"]
    /\ UNCHANGED <<directory, stat, case_fold, merged_dir, keep_merged, prev, args, result>>

AfterLookupAlwaysMerges(hit) == "merge"

\* Where main() goes after the test of line 203.
AfterLookup(hit) == IF hit THEN "register" ELSE "merge"

\* Lines 203-206
Lookup(p) ==
    /\ pc[p] = "lookup"
    /\ LET hit == CacheHit(merged_dir, loc[p].fp)
       IN  /\ loc' = [loc EXCEPT ![p] =
                        Step([@ EXCEPT !.hit = hit,
                                       !.final = IF hit THEN loc[p].fp ELSE @],
                             IF hit THEN "lookup_hit" ELSE "lookup_miss")]
           /\ pc' = [pc EXCEPT ![p] = AfterLookup(hit)]
    /\ UNCHANGED <<directory, stat, case_fold, merged_dir, keep_merged, prev, args, result>>

\* What merge_sharded_model does after the tool has run (gguf.py lines 88-93).
MergeResult(md, fp, o) ==
    IF o.rc = "interrupt" THEN "Interrupted"
    ELSE IF o.rc # "zero" THEN "MergeFailed"
    ELSE IF ~Exists(md, fp) THEN "MergeFailed"
    ELSE "returned"

TooFewShardsNever(shards) == FALSE

\* gguf.py line 73
TooFewShards(shards) == Len(shards) < 2

\* Lines 207-209 and merge_sharded_model (gguf.py lines 71-93)
Merge(p) ==
    /\ pc[p] = "merge"
    /\ IF TooFewShards(shard_files(directory, loc[p].working, case_fold))
       THEN /\ Terminate(p, loc[p], 1, "ShardSetIncomplete")
            /\ UNCHANGED merged_dir
       ELSE \E o \in ToolOutcomes :
              LET md == ToolEffect(merged_dir, loc[p].fp, o)
                  res == MergeResult(md, loc[p].fp, o)
                  l == Step([loc[p] EXCEPT !.tool_calls = @ + 1, !.tool_rc = o.rc,
                                           !.dest = Content(md, loc[p].fp)], "tool")
              IN  /\ merged_dir' = md
                  /\ IF res = "returned"
                     THEN /\ loc' = [loc EXCEPT ![p] =
                                       [l EXCEPT !.final = l.fp, !.merged_created = TRUE]]
                          /\ pc' = [pc EXCEPT ![p] = "register"]
                          /\ UNCHANGED prev
                     ELSE Terminate(p, l, IF res = "Interrupted" THEN 130 ELSE 1, res)
    /\ UNCHANGED <<directory, stat, case_fold, keep_merged, args, result>>

\* Lines 214-280: size of the final file, architecture, Modelfile, ollama
\* create / list / run.
Register(p) ==
    /\ pc[p] = "register"
    /\ IF loc[p].final = loc[p].fp /\ ~Exists(merged_dir, loc[p].fp)
       THEN Terminate(p, loc[p], 1, "Error")
       ELSE \/ pc' = [pc EXCEPT ![p] = "cleanup"] /\ UNCHANGED <<loc, prev>>
            \/ Terminate(p, loc[p], 1, "Error")
            \/ Terminate(p, loc[p], 130, "Interrupted")
    /\ UNCHANGED <<directory, stat, case_fold, merged_dir, keep_merged, args, result>>

RemovesMergedAlsoOnHit(p) ==
    /\ is_sharded_model(directory, loc[p].working, case_fold)
    /\ ~keep_merged
    /\ loc[p].fp # NoFp
    /\ Exists(merged_dir, loc[p].fp)

\* Lines 284-286: the merged file is removed after a successful setup.
RemovesMerged(p) ==
    /\ is_sharded_model(directory, loc[p].working, case_fold)
    /\ ~keep_merged
    /\ loc[p].fp # NoFp
    /\ Exists(merged_dir, loc[p].fp)
    /\ loc[p].merged_created

\* Lines 282-293 and the finally clause
Cleanup(p) ==
    /\ pc[p] = "cleanup"
    /\ merged_dir' = IF RemovesMerged(p) THEN Unlink(merged_dir, loc[p].fp) ELSE merged_dir
    /\ Terminate(p, loc[p], 0, "none")
    /\ UNCHANGED <<directory, stat, case_fold, keep_merged, args, result>>

\* config.py line 94: keep_merged defaults to False
DefaultKeepMerged == FALSE

\* No other invocation is running: the processes run one after the other.
Sequential(p) == \A q \in Procs \ {p} : pc[q] = "idle"

\* An invocation starts when no other is running.
Start(p) == Sequential(p) /\ Begin(p)

NoCall == [fn |-> "none"]

PipelineIdle ==
    /\ merged_dir = << >>
    /\ keep_merged = DefaultKeepMerged
    /\ pc = [p \in Procs |-> "idle"]
    /\ loc = [p \in Procs |-> InitLoc]
    /\ prev = NoPrev

PipelineVars == <<merged_dir, keep_merged, pc, loc, prev>>

PipelineDirs ==
    { {Shard1of2, Shard2of2}, {Shard1of2, Shard2of2, OtherShard1of2},
      {Shard1of2}, {SingleFile} }

FixedStat == [size |-> 1, mtime |-> 6]

Init ==
    /\ directory \in PipelineDirs
    /\ stat = [n \in directory |-> FixedStat]
    /\ case_fold \in BOOLEAN
    /\ merged_dir = << >>
    /\ keep_merged \in BOOLEAN
    /\ pc = [p \in Procs |-> "idle"]
    /\ loc = [p \in Procs |-> InitLoc]
    /\ prev = NoPrev
    /\ args = NoCall
    /\ result = FALSE

Next ==
    \E p \in Procs :
        \/ Start(p)
        \/ Resolve(p)
        \/ Detect(p)
        \/ FindTool(p)
        \/ Fingerprint(p)
        \/ Lookup(p)
        \/ Merge(p)
        \/ Register(p)
        \/ Cleanup(p)

Spec == Init /\ [][Next]_vars

----------------------------------------------------------------------------
(* Properties of the pipeline *)

LookedUp(l) == \E i \in DOMAIN l.steps : l.steps[i] \in {"lookup_hit", "lookup_miss"}

\* C1: cache reuse. With the default configuration, when the invocation
\* before this one ran the merge tool, which left a complete file, and ended
\* successfully, an invocation on the same shard set that reaches its end
\* found that file (cache hit) and the two invocations ran the merge tool
\* exactly once in total.
C1_CacheReuse ==
    \A p \in Procs :
        ( /\ keep_merged = DefaultKeepMerged
          /\ pc[p] = "cleanup"
          /\ loc[p].fp # NoFp
          /\ prev.fp = loc[p].fp
          /\ prev.rc = 0
          /\ prev.tool_calls = 1
          /\ prev.dest = "full" )
        => (loc[p].hit /\ prev.tool_calls + loc[p].tool_calls = 1)

\* C2: after an invocation whose merge attempt ended in MergeFailed, the
\* cache lookup of the next invocation for the same fingerprint is a miss.
C2_FailedMergeIsMiss ==
    \A p \in Procs :
        ( /\ prev.err = "MergeFailed"
          /\ prev.fp = loc[p].fp
          /\ LookedUp(loc[p]) )
        => ~loc[p].hit

\* C3: the merge returns the destination path only when the merge tool
\* exited zero and left a non-empty file at the destination.
C3_MergeReturnsOnlyNonEmpty ==
    \A p \in Procs :
        loc[p].merged_created
        => (loc[p].tool_rc = "zero" /\ loc[p].dest \in {"full", "partial"})

Before(a, b, s) ==
    \A i \in DOMAIN s : s[i] = b => \E j \in 1..(i - 1) : s[j] = a

Occurs(a, s) == \E i \in DOMAIN s : s[i] = a

StepsInOrder(s) ==
    /\ Before("detect", "fingerprint", s)
    /\ Before("fingerprint", "lookup_hit", s)
    /\ Before("fingerprint", "lookup_miss", s)
    /\ Before("lookup_miss", "tool", s)
    /\ ~(Occurs("lookup_hit", s) /\ Occurs("tool", s))

\* C9: in every invocation, running or finished, shard detection precedes
\* fingerprinting, fingerprinting precedes the cache lookup, and the merge
\* tool runs only after that lookup and only when it was a miss.
C9_StepOrder ==
    /\ StepsInOrder(prev.steps)
    /\ \A p \in Procs : StepsInOrder(loc[p].steps)

\* An invocation whose merge attempt failed after a lookup miss.
C9_Witness ==
    /\ prev.err = "MergeFailed"
    /\ prev.steps = << "detect", "fingerprint", "lookup_miss", "tool" >>

----------------------------------------------------------------------------
(* Specification of the shard detector: is_sharded_model and shard_files are
   called on a file of a directory drawn from ShardUniverse. *)

ShardUniverse ==
    { Shard1of2, Shard2of2, OtherShard1of2, SingleFile, Narrow1of2, Narrow2of2,
      DashPart1, DotPart2, NoExtension, UpperShard1of2, PartNotes }

MaxDirSize == 3

\* The directories: up to MaxDirSize files of ShardUniverse.
ShardDirs ==
    { d \in SUBSET ShardUniverse :
        /\ d # {}
        /\ Cardinality(d) <= MaxDirSize }

InitShard ==
    /\ directory \in ShardDirs
    /\ stat = [n \in directory |-> FixedStat]
    /\ case_fold \in BOOLEAN
    \* a case-insensitive file system holds no two names that differ in case only
    /\ case_fold => \A a, b \in directory : LowerStr(a) = LowerStr(b) => a = b
    /\ PipelineIdle
    /\ args = NoCall
    /\ result = FALSE

CallIsSharded ==
    /\ \E n \in directory :
          /\ args' = [fn |-> "is_sharded_model", name |-> n]
          /\ result' = is_sharded_model(directory, n, case_fold)
    /\ UNCHANGED <<directory, stat, case_fold, PipelineVars>>

CallShardFiles ==
    /\ \E n \in directory :
          /\ args' = [fn |-> "shard_files", name |-> n]
          /\ result' = shard_files(directory, n, case_fold)
    /\ UNCHANGED <<directory, stat, case_fold, PipelineVars>>

NextShard == CallIsSharded \/ CallShardFiles

SpecShard == InitShard /\ [][NextShard]_vars

\* The split-naming conventions: index-of-count in five or four digits,
\* -part-N and .partN, each before the .gguf extension.
IndexOfCount4 ==
    << "-", "\\d", "\\d", "\\d", "\\d", "-", "o", "f", "-", "\\d", "\\d", "\\d", "\\d" >>

Pat4(s) == MatchEnd(s, IndexOfCount4 \o DotGguf, TRUE)

SplitConvention(name) == Pat5(name) \/ Pat4(name) \/ PatDashPart(name) \/ PatDotPart(name)

\* The name without split suffix and extension.
BaseName(name) ==
    IF Pat5(name) THEN Sub5(name)
    ELSE IF Pat4(name) THEN SubSeq(name, 1, Len(name) - Len(IndexOfCount4 \o DotGguf))
    ELSE IF PatDashPart(name) THEN SubDashPart(name)
    ELSE IF PatDotPart(name) THEN SubDotPart(name)
    ELSE IF MatchEnd(name, DotGguf, TRUE) THEN SubSeq(name, 1, Len(name) - Len(DotGguf))
    ELSE name

\* The files of the directory that share the base name of name and match a
\* split convention.
Siblings(name) ==
    { n \in directory : SplitConvention(n) /\ BaseName(n) = BaseName(name) }

Range(q) == { q[i] : i \in DOMAIN q }

\* C6: is_sharded_model returns true for every file name that ends in a
\* split convention (five- or four-digit index-of-count, -part-N, .partN),
\* whatever the directory contains.
C6_SplitNameIsSharded ==
    (args.fn = "is_sharded_model" /\ SplitConvention(args.name)) => result = TRUE

\* C7: for a .gguf file whose name matches no split convention,
\* is_sharded_model returns true exactly when the directory holds two or more
\* files that share its base name and match a split convention.
C7_SiblingsDecide ==
    ( /\ args.fn = "is_sharded_model"
      /\ EndsWith(args.name, DotGguf)
      /\ ~SplitConvention(args.name) )
    => (result <=> Cardinality(Siblings(args.name)) >= 2)

\* C8: the shard set of a split artifact (here: one whose lower-case name
\* ends in a split convention) is non-empty, contains the input file, is
\* sorted by file name and consists of exactly the files that share the base
\* name of the input and match a split convention.
C8_ShardSetExact ==
    ( /\ args.fn = "shard_files"
      /\ args.name = LowerStr(args.name)
      /\ SplitConvention(args.name)
      /\ is_sharded_model(directory, args.name, case_fold) )
    => /\ result # << >>
       /\ args.name \in Range(result)
       /\ \A i \in 1..(Len(result) - 1) : StrLess(result[i], result[i + 1])
       /\ Range(result) = Siblings(args.name)

----------------------------------------------------------------------------
(* Specification of the fingerprint: shards_fingerprint is called twice on
   lists of the shards, and the metadata of a shard may change in between. *)

FpNames == {Shard1of2, Shard2of2}

StatValues == [size : {1, 12}, mtime : {6, 7, 46}] \cup {StatError}

ShardLists ==
    { << a >> : a \in FpNames }
        \cup ({ << a, b >> : a, b \in FpNames } \ { << a, a >> : a \in FpNames })

InitFp ==
    /\ directory = FpNames
    /\ stat \in [FpNames -> StatValues]
    /\ case_fold = FALSE
    /\ PipelineIdle
    /\ args = << >>
    /\ result = << >>

CallFingerprint(shards) ==
    /\ args' = Append(args, [shards |-> shards, stat |-> stat])
    /\ result' = Append(result, shards_fingerprint(shards, stat))
    /\ UNCHANGED <<directory, stat, case_fold, PipelineVars>>

FirstCall == args = << >> /\ \E shards \in ShardLists : CallFingerprint(shards)

SecondCall == Len(args) = 1 /\ \E shards \in ShardLists : CallFingerprint(shards)

\* Another program rewrites or touches a shard between the two calls.
Touch ==
    /\ Len(args) = 1
    /\ \E n \in FpNames :
          \E v \in StatValues \ {stat[n]} : stat' = [stat EXCEPT ![n] = v]
    /\ UNCHANGED <<directory, case_fold, PipelineVars, args, result>>

NextFp == FirstCall \/ Touch \/ SecondCall

SpecFp == InitFp /\ [][NextFp]_vars

IsPermutation(a, b) == Len(a) = Len(b) /\ Range(a) = Range(b)

\* C4: the fingerprint of a shard set does not depend on the order in which
\* its members are passed: two calls on permutations of the same members,
\* with the same metadata, return the same fingerprint.
C4_OrderIndependent ==
    \A i, j \in DOMAIN args :
        (args[i].stat = args[j].stat /\ IsPermutation(args[i].shards, args[j].shards))
        => result[i] = result[j]

\* The recorded size or the recorded (integer) modification time of member n
\* differs between the metadata s and t.
MetadataDiffers(s, t, n) ==
    /\ s[n] # StatError
    /\ t[n] # StatError
    /\ (s[n].size # t[n].size \/ IntMtime(s[n]) # IntMtime(t[n]))

\* C5: for the same members in the same order, when the size or the
\* modification time of a member differs, the bytes fed to the digest, and
\* with them the fingerprint, differ.
C5_MetadataSensitive ==
    \A i, j \in DOMAIN args :
        ( /\ args[i].shards = args[j].shards
          /\ \E k \in DOMAIN args[i].shards :
                MetadataDiffers(args[i].stat, args[j].stat, args[i].shards[k]) )
        => result[i] # result[j]

----------------------------------------------------------------------------
(* Specification of the classifier: detect_architecture is called on a file
   whose leading bytes are a sequence of lexemes and whose name is one of
   ArchNames. *)

Lexemes ==
    { W_llama, << "L", "L", "a", "M", "A" >>, W_mistral, W_phi, W_gemma, W_qwen,
      << "3" >>, << "2" >>, << "4" >>, << "." >>, << "-" >>, << "\n" >>, << NonAscii >> }

MaxLexemes == 3

RECURSIVE Flatten(_)
Flatten(q) == IF q = << >> THEN << >> ELSE Head(q) \o Flatten(Tail(q))

Contents ==
    UNION { { Flatten(q) : q \in [1..k -> Lexemes] } : k \in 0..MaxLexemes }

ArchNames ==
    { w \o DotGguf :
        w \in { W_nemotron, << "N", "e", "m", "o", "t", "r", "o", "n" >>, W_mistral,
                W_phi, W_gemma, W_qwen, W_llama \o << "-", "3" >>, Llama \o Instruct } }

ArchFiles == [readable : {TRUE}, bytes : Contents] \cup [readable : {FALSE}, bytes : {<< >>}]

InitArch ==
    /\ directory = {}
    /\ stat = << >>
    /\ case_fold = FALSE
    /\ PipelineIdle
    /\ args \in [fn : {"pending"}, file : ArchFiles, name : ArchNames]
    /\ result = "none"

CallDetectArchitecture ==
    /\ args.fn = "pending"
    /\ args' = [args EXCEPT !.fn = "detect_architecture"]
    /\ result' = detect_architecture(args.file, args.name)
    /\ UNCHANGED <<directory, stat, case_fold, PipelineVars>>

NextArch == CallDetectArchitecture

SpecArch == InitArch /\ [][NextArch]_vars

\* The family signatures of the content stage, in their order.
Families == << "llama3", "mistral", "phi3", "gemma2", "qwen" >>

SignatureMatches(i, c) ==
    CASE i = 1 -> ContentLlama3(c)
      [] i = 2 -> ContentMistral(c)
      [] i = 3 -> ContentPhi3(c)
      [] i = 4 -> ContentGemma2(c)
      [] i = 5 -> ContentQwen(c)

MatchingSignatures(c) == { i \in DOMAIN Families : SignatureMatches(i, c) }

FirstMatch(c) == CHOOSE i \in MatchingSignatures(c) : \A j \in MatchingSignatures(c) : i <= j

\* C10: whenever the decoded content prefix matches a family signature,
\* detect_architecture returns the family of the first matching signature,
\* whatever the file name is.
C10_ContentWins ==
    ( /\ args.fn = "detect_architecture"
      /\ MatchingSignatures(DecodedContent(args.file)) # {} )
    => result = Families[FirstMatch(DecodedContent(args.file))]

\* The content matches the second signature only and the name is a nemotron
\* name: the content decides.
C10_Witness ==
    /\ args.fn = "detect_architecture"
    /\ Contains(LowerStr(args.name), W_nemotron)
    /\ MatchingSignatures(DecodedContent(args.file)) = {2}
    /\ result = "mistral"

----------------------------------------------------------------------------
(* modelfile.py: the template registry and generate_modelfile *)

\* _TEMPLATES (lines 26-170): stop tokens, renderer and parser of each
\* family; "" stands for None.  The template text is named, not spelled out.
Templates ==
    [ nemotron |-> [ template |-> "{{ .Prompt }}", stop |-> << >>,
                     renderer |-> "nemotron-3-nano", parser |-> "nemotron-3-nano" ],
      llama3   |-> [ template |-> "llama3-template",
                     stop |-> << "<|start_header_id|>", "<|end_header_id|>", "<|eot_id|>" >>,
                     renderer |-> "", parser |-> "" ],
      mistral  |-> [ template |-> "mistral-template",
                     stop |-> << "</s>", "[INST]", "[/INST]" >>,
                     renderer |-> "", parser |-> "" ],
      phi3     |-> [ template |-> "phi3-template",
                     stop |-> << "<|end|>", "<|system|>", "<|user|>", "<|assistant|>" >>,
                     renderer |-> "", parser |-> "" ],
      gemma2   |-> [ template |-> "gemma2-template",
                     stop |-> << "<end_of_turn>", "<start_of_turn>" >>,
                     renderer |-> "", parser |-> "" ],
      qwen     |-> [ template |-> "qwen-template",
                     stop |-> << "<|im_start|>", "<|im_end|>" >>,
                     renderer |-> "", parser |-> "" ] ]

supported_architectures == DOMAIN Templates

\* _SYSTEM_MESSAGE (lines 14-17)
DefaultSystemMessage == "default-system-message"

\* One element of the list "out": the fixed text of the line and what is
\* formatted into it.
Line(text, arg) == [text |-> text, arg |-> arg]

NumPredictLine == Line("PARAMETER num_predict -1", << >>)

StopListKeepsDuplicates(defaults, extra_stop) == defaults \o extra_stop

\* Lines 192-196: a copy of the defaults, then every extra token that is not
\* yet in the list.
RECURSIVE StopList(_, _)
StopList(stop, extra_stop) ==
    IF extra_stop = << >> THEN stop
    ELSE StopList(IF \E i \in DOMAIN stop : stop[i] = Head(extra_stop)
                  THEN stop ELSE Append(stop, Head(extra_stop)),
                  Tail(extra_stop))

SystemLinesWhenSupplied(architecture, system_message) ==
    IF architecture # "nemotron" \/ system_message # ""
    THEN << Line("# System message", << >>),
            Line("SYSTEM", << IF system_message # "" THEN system_message
                              ELSE DefaultSystemMessage >>),
            Line("", << >>) >>
    ELSE << >>

\* Lines 232-239
SystemLines(architecture, system_message) ==
    IF architecture # "nemotron"
    THEN << Line("# System message", << >>),
            Line("SYSTEM", << IF system_message # "" THEN system_message
                              ELSE DefaultSystemMessage >>),
            Line("", << >>) >>
    ELSE << >>

\* out.index(x): the first position of x
IndexOf(out, x) == CHOOSE i \in DOMAIN out : out[i] = x /\ \A j \in 1..(i - 1) : out[j] # x

InsertAt(out, i, x) == SubSeq(out, 1, i - 1) \o << x >> \o SubSeq(out, i, Len(out))

InsertNumCtxAfter(out, context_length) ==
    InsertAt(out, IndexOf(out, NumPredictLine) + 1,
             Line("PARAMETER num_ctx", DecStr(context_length)))

\* Line 244
InsertNumCtx(out, context_length) ==
    InsertAt(out, IndexOf(out, NumPredictLine),
             Line("PARAMETER num_ctx", DecStr(context_length)))

RECURSIVE StopLines(_)
StopLines(stop) ==
    IF stop = << >> THEN << >>
    ELSE << Line("PARAMETER stop", << Head(stop) >>) >> \o StopLines(Tail(stop))

\* Lines 199-239: the list "out" before the context length is looked at.
ModelfileLines(mt, path, architecture, extra_stop, system_message) ==
    << Line("# Auto-generated Modelfile with Tool capability for GitHub Copilot", << >>),
       Line("# Architecture:", << architecture >>),
       Line("", << >>),
       Line("FROM", << path >>) >>
    \o (IF mt.renderer # "" THEN << Line("RENDERER", << mt.renderer >>) >> ELSE << >>)
    \o (IF mt.parser # "" THEN << Line("PARSER", << mt.parser >>) >> ELSE << >>)
    \o << Line("", << >>), Line("# Template", << >>),
          Line("TEMPLATE", << mt.template >>), Line("", << >>),
          Line("# Stop sequences", << >>) >>
    \o StopLines(StopList(mt.stop, extra_stop))
    \o << Line("", << >>), Line("# Model parameters", << >>),
          Line("PARAMETER temperature", << "0.7" >>), NumPredictLine, Line("", << >>) >>
    \o SystemLines(architecture, system_message)

\* context_length: [given |-> FALSE] is None.  The result is what the call
\* raises or returns, and the registry as the call leaves it.
generate_modelfile(templates, path, architecture, context_length, extra_stop, system_message) ==
    IF architecture \notin DOMAIN templates
    THEN [status |-> "UnsupportedArchitecture", out |-> << >>, templates |-> templates]
    ELSE LET out == ModelfileLines(templates[architecture], path, architecture,
                                   extra_stop, system_message)
         IN  IF ~context_length.given
             THEN [status |-> "ok", out |-> out, templates |-> templates]
             ELSE IF context_length.value <= 0
             THEN [status |-> "InvalidConfiguration", out |-> << >>, templates |-> templates]
             ELSE [status |-> "ok", out |-> InsertNumCtx(out, context_length.value),
                   templates |-> templates]

----------------------------------------------------------------------------
(* Specification of the emitter: generate_modelfile is called once on
   arguments drawn from the sets below. *)

Architectures == supported_architectures \cup {"llama2"}

ExtraTokens == { "<|eot_id|>", "<|start_of_turn|>", "<|end_of_turn|>", "</s>" }

MaxExtraStop == 3

ExtraStopLists == UNION { [1..k -> ExtraTokens] : k \in 0..MaxExtraStop }

ContextLengths ==
    {[given |-> FALSE, value |-> 0]} \cup [given : {TRUE}, value : {-1, 0, 1, 12}]

SystemMessages == {"", "caller-system-message"}

ModelPath == "/models/llama.gguf"

InitModelfile ==
    /\ directory = {}
    /\ stat = << >>
    /\ case_fold = FALSE
    /\ PipelineIdle
    /\ args \in [ fn : {"pending"}, architecture : Architectures,
                  context_length : ContextLengths, extra_stop : ExtraStopLists,
                  system_message : SystemMessages ]
    /\ result = "none"

CallGenerateModelfile ==
    /\ args.fn = "pending"
    /\ args' = [args EXCEPT !.fn = "generate_modelfile"]
    /\ result' = generate_modelfile(Templates, ModelPath, args.architecture,
                                    args.context_length, args.extra_stop,
                                    args.system_message)
    /\ UNCHANGED <<directory, stat, case_fold, PipelineVars>>

NextModelfile == CallGenerateModelfile

SpecModelfile == InitModelfile /\ [][NextModelfile]_vars

Emitted == args.fn = "generate_modelfile" /\ result.status = "ok"

LinesWith(out, text) == { i \in DOMAIN out : out[i].text = text }

EmittedStops(out) ==
    LET idx == LinesWith(out, "PARAMETER stop")
        RECURSIVE Collect(_)
        Collect(i) ==
            IF i > Len(out) THEN << >>
            ELSE (IF i \in idx THEN << out[i].arg[1] >> ELSE << >>) \o Collect(i + 1)
    IN  Collect(1)

\* The tokens of q that are not in the set seen, each once, in first-seen order.
RECURSIVE FirstSeen(_, _)
FirstSeen(q, seen) ==
    IF q = << >> THEN << >>
    ELSE IF Head(q) \in seen THEN FirstSeen(Tail(q), seen)
    ELSE << Head(q) >> \o FirstSeen(Tail(q), seen \cup {Head(q)})

NoDuplicates(q) == \A i, j \in DOMAIN q : q[i] = q[j] => i = j

\* C13: the stop tokens emitted are the defaults of the family in their
\* order, followed by the extra tokens not already present, in first-seen
\* order; no token is emitted twice and the registry is left as it was.
C13_StopTokens ==
    Emitted =>
        LET defaults == Templates[args.architecture].stop
        IN  /\ EmittedStops(result.out)
                 = defaults \o FirstSeen(args.extra_stop, Range(defaults))
            /\ NoDuplicates(EmittedStops(result.out))
            /\ result.templates = Templates

\* Extra tokens that repeat a default and repeat each other
C13_Witness ==
    /\ Emitted
    /\ args.architecture = "llama3"
    /\ args.extra_stop = << "</s>", "<|eot_id|>", "</s>" >>
    /\ EmittedStops(result.out)
         = << "<|start_header_id|>", "<|end_header_id|>", "<|eot_id|>", "</s>" >>

\* C14: for a registered family, a context length <= 0 fails with
\* InvalidConfiguration and nothing is emitted; a positive one gives exactly
\* one num_ctx line, right before the num_predict line; none gives no
\* num_ctx line.
C14_ContextLength ==
    (args.fn = "generate_modelfile" /\ args.architecture \in supported_architectures) =>
        LET ctx == LinesWith(result.out, "PARAMETER num_ctx")
        IN  IF ~args.context_length.given
            THEN result.status = "ok" /\ ctx = {}
            ELSE IF args.context_length.value <= 0
            THEN result.status = "InvalidConfiguration" /\ result.out = << >>
            ELSE /\ result.status = "ok"
                 /\ Cardinality(ctx) = 1
                 /\ \A i \in ctx :
                       /\ result.out[i].arg = DecStr(args.context_length.value)
                       /\ i < Len(result.out)
                       /\ result.out[i + 1] = NumPredictLine

\* A positive context length was passed and its line was emitted.
C14_Witness ==
    /\ Emitted
    /\ args.context_length.given
    /\ args.context_length.value = 12
    /\ LinesWith(result.out, "PARAMETER num_ctx") # {}

----------------------------------------------------------------------------
(* The classifier and the registry *)

\* C11: detect_architecture returns, for every artifact (an unreadable or
\* missing file included), one class, and the class is a key of the template
\* registry, so generate_modelfile does not fail with UnsupportedArchitecture
\* on it.
C11_ClassifierClosed ==
    args.fn = "detect_architecture" =>
        /\ result \in supported_architectures
        /\ \A ctx \in ContextLengths :
              generate_modelfile(Templates, ModelPath, result, ctx, << >>, "").status
                  # "UnsupportedArchitecture"

\* The file cannot be read and the class comes from the name.
C11_Witness ==
    /\ args.fn = "detect_architecture"
    /\ ~args.file.readable
    /\ args.name = W_gemma \o DotGguf
    /\ result = "gemma2"

\* C19: when the content matches no signature, the class derived from the
\* file name x is the class the content stage would derive from x taken as
\* content, and the default class when x matches no signature.
C19_FilenameSameSignatures ==
    ( /\ args.fn = "detect_architecture"
      /\ MatchingSignatures(DecodedContent(args.file)) = {}
      /\ ~Contains(LowerStr(args.name), W_nemotron) )
    => result = (IF MatchingSignatures(LowerStr(args.name)) # {}
                 THEN Families[FirstMatch(LowerStr(args.name))]
                 ELSE "llama3")

----------------------------------------------------------------------------
(* source.py: parse_model_source.

   A model source is a sequence of atoms: the characters " ", "/", ":" and
   "?" on their own, and words, which hold none of these characters.  No
   word of the model is a proper prefix of another one, so the regular
   expressions of the source decide on atoms as they decide on characters. *)

Space == " "

AtomLower(a) ==
    CASE a = "Ollama" -> "ollama" [] a = "HTTP" -> "http"
      [] a = "HuggingFace.co" -> "huggingface.co" [] OTHER -> a

None == [some |-> FALSE, val |-> << >>]
Some(v) == [some |-> TRUE, val |-> v]

\* The first position at or after i that holds no whitespace; Len(s) + 1 if
\* there is none.
RECURSIVE SkipSpace(_, _)
SkipSpace(s, i) == IF i <= Len(s) /\ s[i] = Space THEN SkipSpace(s, i + 1) ELSE i

RECURSIVE StripRight(_)
StripRight(s) ==
    IF s # << >> /\ s[Len(s)] = Space THEN StripRight(SubSeq(s, 1, Len(s) - 1)) ELSE s

\* str.strip()
Strip(s) == StripRight(SubSeq(s, SkipSpace(s, 1), Len(s)))

\* Line 34: ^\s*ollama\s+(run|pull)\s+(?P<rest>.+)$ with IGNORECASE; the
\* result is the group "rest", None when the expression does not match.
OllamaRest(s) ==
    LET i == SkipSpace(s, 1)
        j == SkipSpace(s, i + 1)
        k == SkipSpace(s, j + 1)
    IN  IF /\ i <= Len(s) /\ AtomLower(s[i]) = "ollama"
           /\ j > i + 1 /\ j <= Len(s) /\ AtomLower(s[j]) \in {"run", "pull"}
           /\ k > j + 1 /\ k <= Len(s)
        THEN Some(SubSeq(s, k, Len(s)))
        ELSE None

\* The end of the run of non-whitespace atoms that starts at i.
RECURSIVE TokenEnd(_, _)
TokenEnd(s, i) == IF i < Len(s) /\ s[i + 1] # Space THEN TokenEnd(s, i + 1) ELSE i

\* s.split(): the list of the whitespace-separated tokens
RECURSIVE Split(_)
Split(s) ==
    LET i == SkipSpace(s, 1)
    IN  IF i > Len(s) THEN << >>
        ELSE << SubSeq(s, i, TokenEnd(s, i)) >> \o Split(SubSeq(s, TokenEnd(s, i) + 1, Len(s)))

\* ^https?:// with IGNORECASE
HasScheme(token) ==
    /\ Len(token) >= 4
    /\ AtomLower(token[1]) \in {"http", "https"}
    /\ token[2] = ":" /\ token[3] = "/" /\ token[4] = "/"

HostAt(token, i) ==
    /\ i + 1 <= Len(token)
    /\ AtomLower(token[i]) \in {"hf.co", "huggingface.co"}
    /\ token[i + 1] = "/"

\* _HF_HOST_RE.match(token)
HfHostMatch(token) == IF HasScheme(token) THEN HostAt(token, 5) ELSE HostAt(token, 1)

\* urlparse(uri).path for a uri made of a scheme, "//", a host and the rest:
\* what follows the host, up to the query.
RECURSIVE UntilQuery(_)
UntilQuery(s) ==
    IF s = << >> \/ Head(s) = "?" THEN << >> ELSE << Head(s) >> \o UntilQuery(Tail(s))

UrlPath(uri) == UntilQuery(SubSeq(uri, 6, Len(uri)))

\* [seg for seg in path.split("/") if seg]
RECURSIVE Segments(_)
Segments(path) ==
    IF path = << >> THEN << >>
    ELSE IF Head(path) = "/" THEN Segments(Tail(path))
    ELSE LET n == CHOOSE n \in 1..Len(path) :
                     /\ \A k \in 1..n : path[k] # "/"
                     /\ n = Len(path) \/ path[n + 1] = "/"
         IN  << SubSeq(path, 1, n) >> \o Segments(SubSeq(path, n + 1, Len(path)))

\* _split_repo_segment (lines 20-27)
split_repo_segment(repo_segment) ==
    IF \E i \in DOMAIN repo_segment : repo_segment[i] = ":"
    THEN LET i == CHOOSE i \in DOMAIN repo_segment :
                      /\ repo_segment[i] = ":"
                      /\ \A j \in 1..(i - 1) : repo_segment[j] # ":"
             suffix == SubSeq(repo_segment, i + 1, Len(repo_segment))
         IN  [ name |-> SubSeq(repo_segment, 1, i - 1),
               suffix |-> IF suffix # << >> THEN Some(suffix) ELSE None ]
    ELSE [name |-> repo_segment, suffix |-> None]

\* _OWNER_REPO_RE.match(token): the groups owner and repo, None when the
\* expression does not match.  A token holds no whitespace.
OwnerRepo(token) ==
    LET slashes == { i \in DOMAIN token : token[i] = "/" }
    IN  IF Cardinality(slashes) = 1 /\ 1 \notin slashes /\ Len(token) \notin slashes
        THEN LET i == CHOOSE i \in slashes : TRUE
             IN  Some([ owner |-> SubSeq(token, 1, i - 1),
                        repo |-> SubSeq(token, i + 1, Len(token)) ])
        ELSE None

ParsedSource(is_hf, repo_id, quant_suffix, local_path) ==
    [ status |-> "ok", is_hf |-> is_hf, repo_id |-> repo_id,
      quant_suffix |-> quant_suffix, local_path |-> local_path ]

RemoteSource(owner, repo_segment) ==
    ParsedSource(TRUE, Some(owner \o << "/" >> \o split_repo_segment(repo_segment).name),
                 split_repo_segment(repo_segment).suffix, None)

\* Lines 30-61.  The status is "IndexError" when line 39 indexes an empty list.
parse_model_source(model_source) ==
    LET s0 == Strip(model_source)
        s == IF OllamaRest(s0).some THEN Strip(OllamaRest(s0).val) ELSE s0
    IN  IF Split(s) = << >>
        THEN [ status |-> "IndexError", is_hf |-> FALSE, repo_id |-> None,
               quant_suffix |-> None, local_path |-> None ]
        ELSE LET token == Split(s)[1]
                 uri == IF HasScheme(token) THEN token
                        ELSE << "https", ":", "/", "/" >> \o token
                 segments == Segments(UrlPath(uri))
             IN  IF HfHostMatch(token) /\ Len(segments) >= 2
                 THEN RemoteSource(segments[1], segments[2])
                 ELSE IF OwnerRepo(token).some
                 THEN RemoteSource(OwnerRepo(token).val.owner, OwnerRepo(token).val.repo)
                 ELSE ParsedSource(FALSE, None, None, Some(token))

----------------------------------------------------------------------------
(* Specification of the parser: parse_model_source is called once on a model
   source put together from the parts below. *)

Leads == { << >>, << Space >> }

Commands ==
    { << >>, << "ollama", Space, "run", Space >>,
      << "Ollama", Space, Space, "pull", Space >>, << "ollama", Space, "run" >> }

Schemes == { << >>, << "https", ":", "/", "/" >>, << "HTTP", ":", "/", "/" >> }

Hosts == { << >>, << "hf.co", "/" >>, << "HuggingFace.co", "/" >> }

Bodies ==
    { << >>, << "org" >>, << "org", "/", "repo" >>,
      << "org", "/", "repo", "/", "resolve" >>, << "/", "models", "/", "model.gguf" >>,
      << "model.gguf" >> }

Suffixes == { << >>, << ":", "Q4_0" >>, << ":" >> }

Trailers == { << >>, << Space >>, << Space, "extra" >>, << "?", "download" >> }

ModelSources ==
    { l \o c \o s \o h \o b \o x \o t :
        l \in Leads, c \in Commands, s \in Schemes, h \in Hosts, b \in Bodies,
        x \in Suffixes, t \in Trailers }

InitSource ==
    /\ directory = {}
    /\ stat = << >>
    /\ case_fold = FALSE
    /\ PipelineIdle
    /\ args \in [fn : {"pending"}, model_source : ModelSources]
    /\ result = "none"

CallParseModelSource ==
    /\ args.fn = "pending"
    /\ args' = [args EXCEPT !.fn = "parse_model_source"]
    /\ result' = parse_model_source(args.model_source)
    /\ UNCHANGED <<directory, stat, case_fold, PipelineVars>>

NextSource == CallParseModelSource

SpecSource == InitSource /\ [][NextSource]_vars

\* C15: parse_model_source returns, for every input string (the empty and
\* the whitespace-only one included), a descriptor in which exactly one of
\* repo_id and local_path is set: repo_id when the source is remote,
\* local_path when it is local, and a quantization suffix only on a remote one.
C15_ParseTotal ==
    args.fn = "parse_model_source" =>
        /\ result.status = "ok"
        /\ result.repo_id.some # result.local_path.some
        /\ result.repo_id.some = result.is_hf
        /\ result.local_path.some = ~result.is_hf
        /\ result.quant_suffix.some => result.is_hf

----------------------------------------------------------------------------
(* The scratch directory and the size of the shard set *)

\* The exit status main() returns for each way an invocation ends.
ExitStatus(err) == IF err = "none" THEN 0 ELSE IF err = "Interrupted" THEN 130 ELSE 1

\* C17: whenever an invocation that has created its scratch directory ends
\* (success, an error, Ctrl-C in an external call), the removal of the
\* directory has been attempted unless --keep-downloads was given, and the
\* exit status is the one of the way it ended, whether the removal worked or not.
C17_ScratchCleanup ==
    [][ \A p \in Procs :
          (pc[p] # "idle" /\ pc'[p] = "idle") =>
              /\ loc[p].temp_dir = "exists"
              /\ IF loc[p].keep_downloads
                 THEN prev'.temp_dir = "exists"
                 ELSE prev'.temp_dir \in RmtreeOutcomes
              /\ prev'.rc = ExitStatus(prev'.err) ]_vars

\* An invocation interrupted in the merge tool: the removal was attempted
\* and failed, the exit status is the one of the interrupt.
C17_Witness ==
    /\ prev.err = "Interrupted"
    /\ prev.tool_calls = 1
    /\ ~prev.keep_downloads
    /\ prev.temp_dir = "remove_failed"
    /\ prev.rc = 130

\* C20: the merge tool is never run on a shard set of fewer than two files:
\* the merge of such a set ends the invocation with ShardSetIncomplete before
\* the tool is started, and the merge cache is left as it was.
C20_NoMergeBelowTwo ==
    /\ [](\A p \in Procs : loc[p].tool_calls > 0 => Len(loc[p].shards) >= 2)
    /\ [][ \A p \in Procs :
             (pc[p] = "merge" /\ Len(loc[p].shards) < 2) =>
                 /\ pc'[p] = "idle"
                 /\ prev'.err = "ShardSetIncomplete"
                 /\ prev'.rc = 1
                 /\ prev'.tool_calls = 0
                 /\ merged_dir' = merged_dir ]_vars

\* A single file with a split name: detected as sharded by its name alone,
\* the invocation ended before the tool was run.
C20_Witness ==
    /\ directory = {Shard1of2}
    /\ prev.err = "ShardSetIncomplete"
    /\ prev.steps = << "detect", "fingerprint", "lookup_miss" >>
    /\ prev.tool_calls = 0
    /\ merged_dir = << >>

----------------------------------------------------------------------------
(* Concurrent invocations: two processes run main() on the same shard set
   and the same merge cache, their steps interleaved in any order. *)

LaunchUnderLock(p) == Sequential(p) /\ Begin(p)

\* An invocation starts whatever the other one is doing: main() takes no
\* lock and looks at no marker of a running invocation.
Launch(p) == Begin(p)

InitConc ==
    /\ directory = {Shard1of2, Shard2of2}
    /\ stat = [n \in directory |-> FixedStat]
    /\ case_fold = FALSE
    /\ merged_dir = << >>
    /\ keep_merged = DefaultKeepMerged
    /\ pc = [p \in Procs |-> "idle"]
    /\ loc = [p \in Procs |-> InitLoc]
    /\ prev = NoPrev
    /\ args = NoCall
    /\ result = FALSE

NextConc ==
    \E p \in Procs :
        \/ Launch(p)
        \/ Resolve(p)
        \/ Detect(p)
        \/ FindTool(p)
        \/ Fingerprint(p)
        \/ Lookup(p)
        \/ Merge(p)
        \/ Register(p)
        \/ Cleanup(p)

\* An invocation that is asked for is started; nothing is assumed about how
\* long a running one takes, or whether it ever comes back from a download,
\* the merge tool or ollama.
SpecConcFair == InitConc /\ [][NextConc]_vars /\ \A p \in Procs : WF_vars(Launch(p))

\* C18: no invocation waits for the other or is kept out by it: a process
\* that is asked to run gets going, wherever the other process is (between
\* its cache lookup and its merge included) and however long it stays there.
\* (An invocation that finds no ollama on the PATH ends at once.)
C18_NoExclusion ==
    \A p \in Procs :
        (pc[p] = "idle") ~>
            (pc[p] # "idle" \/ (prev.err = "ToolNotFound" /\ prev.temp_dir = "none"))

\* Both invocations have observed a miss for the same fingerprint and both
\* have run the merge tool on the same destination.
C18_Witness ==
    /\ loc["p1"].fp = loc["p2"].fp
    /\ loc["p1"].fp # NoFp
    /\ \A p \in Procs :
          /\ ~loc[p].hit
          /\ loc[p].tool_calls = 1
          /\ Occurs("lookup_miss", loc[p].steps)
          /\ Occurs("tool", loc[p].steps)

----------------------------------------------------------------------------
(* huggingface.py: hf_download_cached.

   directory is the per-repository download directory, stat gives the size
   of each file, args holds the arguments of the call and what the
   repository offers, result the progress of the call: where it is, the
   fetches made so far and what it raises or returns. *)

NoQuant == << >>

\* _is_helper_gguf (lines 212-215)
HelperWords ==
    { << "i", "m", "a", "t", "r", "i", "x" >>, << "m", "m", "p", "r", "o", "j" >>,
      << "c", "l", "i", "p" >>, << "v", "i", "s", "i", "o", "n" >>,
      << "t", "e", "x", "t", "-", "e", "n", "c", "o", "d", "e", "r" >>,
      << "v", "a", "e" >> }

is_helper_gguf(name) == \E b \in HelperWords : Contains(LowerStr(name), b)

FirstShardMark == << "-", "0", "0", "0", "0", "1", "-", "o", "f", "-" >>

\* _is_first_shard (lines 218-220)
is_first_shard(name) ==
    EndsWith(LowerStr(name), DotGguf) /\ Contains(LowerStr(name), FirstShardMark)

\* quantization_type.lower() in name.lower() (lines 61 and 181)
HasQuant(name, quant) == quant = NoQuant \/ Contains(LowerStr(name), LowerStr(quant))

\* Lines 58-61
matches_quant(name, quant) == IF quant = NoQuant THEN TRUE ELSE HasQuant(name, quant)

\* Lines 51-52
GgufFiles(all_files) ==
    { f \in all_files : EndsWith(LowerStr(f), DotGguf) /\ ~is_helper_gguf(f) }

\* Line 63
Candidates(all_files, quant) == { f \in GgufFiles(all_files) : matches_quant(f, quant) }

\* Lines 74-75
Selected(candidates) ==
    LET first_shards == { f \in candidates : is_first_shard(f) }
    IN  SortedByName(IF first_shards # {} THEN first_shards ELSE candidates)[1]

\* selected_name.rsplit("-00001-of-", 1)[0]
RSplitBase(name) ==
    IF Contains(name, FirstShardMark)
    THEN LET i == CHOOSE i \in 1..Len(name) :
                      /\ MatchAt(name, i, FirstShardMark, FALSE)
                      /\ \A j \in (i + 1)..Len(name) : ~MatchAt(name, j, FirstShardMark, FALSE)
         IN  SubSeq(name, 1, i - 1)
    ELSE name

\* Lines 80-89 and 106-110: the files the library downloads
ShardPaths(candidates) ==
    LET selected == Selected(candidates)
        base == LowerStr(RSplitBase(selected)) \o << "-" >>
        shard_paths == { f \in candidates :
                           StartsWith(LowerStr(f), base) /\ EndsWith(LowerStr(f), DotGguf) }
    IN  IF ~is_first_shard(selected) THEN {selected}
        ELSE IF shard_paths = {} THEN {selected}
        ELSE shard_paths

\* Lines 103-104 and 114: the path the library branch returns
LibraryPath(candidates) ==
    LET local_paths == ShardPaths(candidates)
        first_local == { p \in local_paths : is_first_shard(p) }
    IN  SortedByName(IF first_local # {} THEN first_local ELSE local_paths)[1]

\* hf download --include pattern: the files of the repository the pattern
\* "*<quant>*.gguf" (or "*.gguf" without a filter) selects; fnmatch follows
\* the case rule of the platform.
IncludeMatch(name, quant, fold) ==
    LET n == IF fold THEN LowerStr(name) ELSE name
        q == IF fold THEN LowerStr(quant) ELSE quant
    IN  /\ EndsWith(n, DotGguf)
        /\ quant # NoQuant => Contains(SubSeq(n, 1, Len(n) - Len(DotGguf)), q)

Included(all_files, quant, fold) == { f \in all_files : IncludeMatch(f, quant, fold) }

\* One fetch: the filter it was made with, how it ended and what it got.
Fetch(quant, outcome, got) == [filter |-> quant, outcome |-> outcome, got |-> got]

FetchOutcomes == {"ok", "error", "interrupt"}

HfStart ==
    [ pc |-> "start", status |-> "none", path |-> << >>, fetches |-> << >>,
      next_filter |-> NoQuant ]

HfRaise(r, status) == [r EXCEPT !.pc = "done", !.status = status]

HfFailure(outcome) == IF outcome = "interrupt" THEN "Interrupted" ELSE "FetchError"

Logged(r, f) == [r EXCEPT !.fetches = Append(@, f)]

\* Lines 46-69: the library is importable; the repository is listed and the
\* listing is filtered.  The filter is applied at line 63, after the listing
\* has been found to hold model files.
HfLibraryList ==
    /\ result.pc = "start"
    /\ args.library
    /\ \E o \in FetchOutcomes :
          LET candidates == Candidates(args.repo, args.quant)
          IN  result' =
                IF o # "ok" THEN HfRaise(Logged(result, Fetch(NoQuant, o, {})), HfFailure(o))
                ELSE IF GgufFiles(args.repo) = {}
                THEN HfRaise(Logged(result, Fetch(NoQuant, o, {})), "NoGguf")
                ELSE IF args.quant # NoQuant /\ candidates = {}
                THEN HfRaise(Logged(result, Fetch(args.quant, o, {})), "NoMatch")
                ELSE [result EXCEPT !.pc = "download"]
    /\ UNCHANGED <<directory, stat, case_fold, PipelineVars, args>>

\* Lines 71-114: the selected file, or its shard group, is downloaded into
\* the library's cache and the path of the first file is returned.
HfHubDownload ==
    /\ result.pc = "download"
    /\ \E o \in FetchOutcomes :
          LET candidates == Candidates(args.repo, args.quant)
              fetched == Logged(result, Fetch(args.quant, o, ShardPaths(candidates)))
          IN  result' =
                IF o # "ok" THEN HfRaise(fetched, HfFailure(o))
                ELSE [HfRaise(fetched, "returned") EXCEPT !.path = LibraryPath(candidates)]
    /\ UNCHANGED <<directory, stat, case_fold, PipelineVars, args>>

\* Lines 115-127 and 178-189: the library is not importable; the hf
\* executable is looked up and the download directory is inspected.
HfCliStart ==
    /\ result.pc = "start"
    /\ ~args.library
    /\ \E hf \in BOOLEAN :
          LET existing == directory
              matching == { p \in existing : HasQuant(p, args.quant) }
          IN  result' =
                IF ~hf THEN HfRaise(result, "ToolNotFound")
                ELSE IF args.quant # NoQuant
                THEN IF matching = {}
                     THEN [result EXCEPT !.pc = "run", !.next_filter = args.quant]
                     ELSE [result EXCEPT !.pc = "select"]
                ELSE IF existing = {}
                THEN [result EXCEPT !.pc = "run", !.next_filter = NoQuant]
                ELSE [result EXCEPT !.pc = "select"]
    /\ UNCHANGED <<directory, stat, case_fold, PipelineVars, args>>

\* _run (lines 129-176) and what follows the call (lines 184-187)
HfRun ==
    /\ result.pc = "run"
    /\ \E o \in FetchOutcomes :
          LET got == IF o = "ok" THEN Included(args.repo, result.next_filter, case_fold)
                     ELSE {}
              fetched == Logged(result, Fetch(result.next_filter, o, got))
          IN  /\ directory' = directory \cup got
              /\ result' =
                   IF o # "ok" THEN HfRaise(fetched, HfFailure(o))
                   ELSE IF result.next_filter # NoQuant /\ directory' = {}
                   THEN [fetched EXCEPT !.pc = "run", !.next_filter = NoQuant]
                   ELSE [fetched EXCEPT !.pc = "select"]
    /\ UNCHANGED <<stat, case_fold, PipelineVars, args>>

\* Lines 191-209
HfSelect ==
    /\ result.pc = "select"
    /\ LET ggufs == directory
           non_helper == { p \in ggufs : ~is_helper_gguf(p) }
           primary == IF non_helper = {} THEN ggufs ELSE non_helper
           first_shards == { p \in primary : is_first_shard(p) }
       IN  IF ggufs = {} THEN result' = HfRaise(result, "NoGguf")
           ELSE IF first_shards # {}
           THEN result' = [HfRaise(result, "returned") EXCEPT
                             !.path = SortedByName(first_shards)[1]]
           ELSE \E largest \in primary :
                  /\ \A p \in primary : stat[p].size <= stat[largest].size
                  /\ result' = [HfRaise(result, "returned") EXCEPT !.path = largest]
    /\ UNCHANGED <<directory, stat, case_fold, PipelineVars, args>>

----------------------------------------------------------------------------
(* Specification of the download: hf_download_cached is called once, on a
   repository and a download directory drawn from the sets below. *)

F32File == Llama \o << "-", "f", "3", "2" >> \o DotGguf
F16File == Llama \o << "-", "f", "1", "6" >> \o DotGguf
ClipFile == << "c", "l", "i", "p", "-", "f", "1", "6" >> \o DotGguf

HfUniverse == { F32File, F16File, ClipFile, Shard1of2, Shard2of2 }

HfSizes ==
    [ n \in HfUniverse |->
        [ size |-> IF n = F32File THEN 3 ELSE IF n = F16File THEN 2 ELSE 1, mtime |-> 6 ] ]

MaxRepoFiles == 3

MaxLeftFiles == 2

Repositories == { r \in SUBSET HfUniverse : Cardinality(r) <= MaxRepoFiles }

\* What earlier invocations have left in the download directory.
LeftFiles == { d \in SUBSET HfUniverse : Cardinality(d) <= MaxLeftFiles }

Quants == { NoQuant, << "f", "1", "6" >>, << "F", "1", "6" >> }

InitHf ==
    /\ directory \in LeftFiles
    /\ stat = HfSizes
    /\ case_fold \in BOOLEAN
    /\ PipelineIdle
    /\ args \in [ fn : {"hf_download_cached"}, repo : Repositories, quant : Quants,
                  library : BOOLEAN ]
    /\ result = HfStart

NextHf == HfLibraryList \/ HfHubDownload \/ HfCliStart \/ HfRun \/ HfSelect

SpecHf == InitHf /\ [][NextHf]_vars

\* A fetch made with a filter that got no file.
NoMatchFetch(f) == f.filter # NoQuant /\ f.outcome = "ok" /\ f.got = {}

\* C16: when a fetch made with a quantization filter finds no matching file,
\* the call fails for want of a file only after exactly one more fetch, made
\* without the filter; a fetch that ends in an error is the last one; no call
\* makes more than two fetches.
C16_RetryOnceWithoutFilter ==
    LET n == Len(result.fetches)
    IN  /\ n <= 2
        /\ \A i \in 1..n : result.fetches[i].outcome # "ok" => i = n
        /\ ( /\ result.status \in {"NoMatch", "NoGguf"}
             /\ \E i \in 1..n : NoMatchFetch(result.fetches[i]) )
           => ( /\ n = 2
                /\ NoMatchFetch(result.fetches[1])
                /\ result.fetches[2].filter = NoQuant )

----------------------------------------------------------------------------
(* What an invocation does to the merge cache *)

\* C21: a merged file leaves the cache only in the last step of a successful
\* invocation that has itself run the merge tool on it, with keep_merged
\* false; a file reused through a cache hit is there, with the same
\* contents, after every step of the invocation that reuses it and after the
\* invocation has ended.
C21_OnlyOwnMergeRemoved ==
    /\ [](prev.hit => CacheHit(merged_dir, prev.fp))
    /\ [][ /\ \A f \in DOMAIN merged_dir :
                f \notin DOMAIN merged_dir' =>
                    \E p \in Procs :
                        /\ pc[p] = "cleanup" /\ pc'[p] = "idle"
                        /\ loc[p].fp = f
                        /\ loc[p].merged_created
                        /\ ~loc[p].hit
                        /\ loc[p].tool_calls = 1
                        /\ ~keep_merged
                        /\ prev'.rc = 0
           /\ \A p \in Procs :
                loc[p].hit =>
                    /\ Exists(merged_dir', loc[p].fp)
                    /\ merged_dir'[loc[p].fp] = merged_dir[loc[p].fp] ]_vars

\* keep_merged is false, the invocation has reused a cached merge and has
\* ended with success: the file is still in the cache.
C21_Witness ==
    /\ ~keep_merged
    /\ prev.hit
    /\ prev.rc = 0
    /\ prev.tool_calls = 0
    /\ CacheHit(merged_dir, prev.fp)


\* C22: with a quantization filter in effect, every path hf_download_cached
\* returns has a file name that contains the filter, letter case aside, on
\* the library branch and on the CLI branch and whatever earlier invocations
\* have left in the download directory (files of the same repository).
C22_ReturnedPathMatchesFilter ==
    ( /\ result.status = "returned"
      /\ args.quant # NoQuant
      /\ directory \subseteq args.repo )
    => Contains(LowerStr(result.path), LowerStr(args.quant))

====
